---- MODULE Spec2Model ----
(***************************************************************************)
(* Binance Futures Loss Guardian 4.0 (src/debug_orders.ts, lines 62-816).  *)
(*                                                                         *)
(* Three activities share the process: the position monitor loop           *)
(* (PositionMonitor.start / tick / closePosition), the stop-loss checker   *)
(* (SLChecker.check, started by setInterval) and the Telegram command      *)
(* handlers (cmdPause / cmdResume).  JavaScript runs one continuation at a *)
(* time, so one action of this model is the code executed between two      *)
(* suspensions on network or timer I/O: the completion of the request an   *)
(* activity waits for, followed by the synchronous code up to the next     *)
(* request it issues.  The exchange and the alert transport are the        *)
(* environment: every request may succeed with any answer of a small set,  *)
(* or fail.                                                                *)
(*                                                                         *)
(* Amounts and quantities are integers in units of 10^-AmtDigits; pnl and  *)
(* the loss threshold are integers in USDT.                                *)
(***************************************************************************)
EXTENDS Integers, Sequences, FiniteSets, Bags, TLC

\* ---------------------------------------------------------------- bounds

\* Cap of the consecutive-error counter in the monitor specification.
MaxErrors == 1
\* Longest order list an order-list request answers with.
MaxOrders == 2
\* Number of SLChecker.check cycles that may be in progress at once.
MaxChecks == 2
\* Number of clock steps after the start of the process.
MaxTime == 2

\* ------------------------------------------------------ program constants

\* cfg.maxLossUsd: parseFloat(getEnv('MAX_LOSS_USD') || '100')
maxLossUsd == 100
\* retry(..., { attempts: 3, delayMs: 500 }) in closePosition
attempts == 3
\* `this.symbolInfo.get(symbol) || 6`
DefaultPrecision == 6
\* fractional digits carried by an amount of the model
AmtDigits == 3
\* cfg.telegramInterval, in clock steps
telegramInterval == 2

Symbols == {"BTCUSDT", "ETHUSDT"}
SymbolOrder == <<"BTCUSDT", "ETHUSDT">>

\* symbolInfo.has(symbol) is false
NoInfo == -1

\* ------------------------------------------------------------ environment

\* positionAmt values of /fapi/v2/positionRisk entries (0 = no position)
AmtValues == {-106, 0, 104}
\* unRealizedProfit values: beyond, at and just under the threshold, and a profit
PnlValues == {-150, -100, -99, 100}

RawEntries(s) ==
    { [symbol |-> s, positionAmt |-> a, unRealizedProfit |-> p] :
        a \in AmtValues, p \in PnlValues }

\* Answers of /fapi/v2/positionRisk: at most one entry per symbol.
RawLists ==
    LET opt(s) == {<<>>} \cup { <<e>> : e \in RawEntries(s) }
    IN  { x \o y : x \in opt(SymbolOrder[1]), y \in opt(SymbolOrder[2]) }

\* Answers without a position that reaches the loss threshold.
CalmRawLists ==
    { l \in RawLists : \A i \in 1..Len(l) : l[i].unRealizedProfit > -maxLossUsd }

\* stepSize strings of the LOT_SIZE filter, as character sequences.
Step001 == <<"0", ".", "0", "1">>
Step1 == <<"1">>

\* Answers of /fapi/v1/exchangeInfo: symbol -> stepSize, for the listed symbols.
ExchangeInfos ==
    { [s \in {"BTCUSDT", "ETHUSDT"} |-> IF s = "BTCUSDT" THEN Step001 ELSE Step1],
      [s \in {"BTCUSDT"} |-> Step001] }

\* Open algo orders an account may hold.
AlgoOrderPool ==
    { [algoId |-> 1, side |-> "SELL", orderType |-> "STOP_MARKET", algoStatus |-> "NEW",
       closePosition |-> TRUE, quantity |-> 0],
      [algoId |-> 2, side |-> "BUY", orderType |-> "STOP", algoStatus |-> "NEW",
       closePosition |-> FALSE, quantity |-> 105],
      [algoId |-> 3, side |-> "SELL", orderType |-> "STOP", algoStatus |-> "CANCELED",
       closePosition |-> TRUE, quantity |-> 105],
      [algoId |-> 4, side |-> "SELL", orderType |-> "TAKE_PROFIT_MARKET", algoStatus |-> "NEW",
       closePosition |-> TRUE, quantity |-> 0] }

\* Answers of /fapi/v1/openAlgoOrders: lists of distinct orders, by id.
AlgoOrderLists ==
    { l \in UNION { [1..n -> AlgoOrderPool] : n \in 0..MaxOrders } :
        \A i \in 1..Len(l) : \A j \in 1..Len(l) : i < j => l[i].algoId < l[j].algoId }

\* Open conventional orders an account may hold.  closePosition arrives as a
\* JSON string or boolean: "S:true" is the string 'true', "B:true" the boolean.
OpenOrderPool ==
    { [orderId |-> 1, side |-> "SELL", type |-> "STOP_MARKET", status |-> "NEW",
       closePosition |-> "S:true", origQty |-> 0],
      [orderId |-> 2, side |-> "BUY", type |-> "STOP", status |-> "NEW",
       closePosition |-> "B:false", origQty |-> 106],
      [orderId |-> 3, side |-> "SELL", type |-> "LIMIT", status |-> "NEW",
       closePosition |-> "B:false", origQty |-> 104],
      [orderId |-> 4, side |-> "SELL", type |-> "STOP", status |-> "PARTIALLY_FILLED",
       closePosition |-> "B:true", origQty |-> 104] }

\* Answers of /fapi/v1/openOrders: lists of distinct orders, by id.
OpenOrderLists ==
    { l \in UNION { [1..n -> OpenOrderPool] : n \in 0..MaxOrders } :
        \A i \in 1..Len(l) : \A j \in 1..Len(l) : i < j => l[i].orderId < l[j].orderId }

\* Answers of /fapi/v2/positionRisk while the detector is studied: a long
\* BTCUSDT and a short ETHUSDT position, each present or not, both with a loss
\* under the threshold.
WatchRawLists ==
    { l \in CalmRawLists :
        \A i \in 1..Len(l) :
            /\ l[i].unRealizedProfit = -99
            /\ l[i].positionAmt = (IF l[i].symbol = "BTCUSDT" THEN 104 ELSE -106) }

\* status of the answer to POST /fapi/v1/order
CloseStatuses == {"FILLED", "PARTIALLY_FILLED", "NEW", "EXPIRED"}

\* ------------------------------------------------------------------ state

VARIABLES
    paused,       \* `let paused`
    dryRun,       \* cfg.dryRun
    positions,    \* PositionMonitor.positions
    errors,       \* PositionMonitor.errors
    symbolInfo,   \* BinanceAPI.symbolInfo
    mpc,          \* the request or timer PositionMonitor.start is suspended on
    idx,          \* tick: index in positions of the position being closed
    qty,          \* closePosition: qty
    algoOrders,   \* closePosition: algoOrders
    aidx,         \* closePosition: index in algoOrders of the order being cancelled
    attempt,      \* retry: i
    invoked,      \* history: indexes closePosition was called with in this tick
    trace,        \* history: requests, sleeps and log lines of the current closePosition
    checked,      \* history: what `if (paused)` found in this tick, "none" before it
    lastFetched,  \* history: the answer of the last successful positionRisk request
    cache,        \* SLChecker.cache: symbol -> "true" | "false" (hasSL), or "absent"
    lastNotify,   \* TelegramBot.lastNotify: symbol -> time, or NoTime
    now,          \* Date.now()
    chk,          \* the SLChecker.check cycles in progress: a bag of their local states
    slEvent,      \* history: the checkSL call the last step completed, if any
    alerts,       \* history: symbol -> time of the last shouldNotify call that returned
                  \* true, and the caller of clearSymbol since ("no" when not called)
    running,      \* src/index.ts: PositionMonitor.running
    lastTick,     \* src/index.ts: PositionMonitor.lastTick
    probe,        \* an order under the test of checkSL's loops, and the verdict
    tgEvent       \* history: the update handleUpdate handled last, and the command run

vars ==
    << paused, dryRun, positions, errors, symbolInfo, mpc, idx, qty, algoOrders,
       aidx, attempt, invoked, trace, checked, lastFetched,
       cache, lastNotify, now, chk, slEvent, alerts, running, lastTick, probe, tgEvent >>

\* ---------------------------------------------------------- pure functions

Abs(x) == IF x < 0 THEN -x ELSE x

RECURSIVE Pow10(_)
Pow10(n) == IF n <= 0 THEN 1 ELSE 10 * Pow10(n - 1)

\* Mutation: the entries with amount 0 are kept.
getPositionsKeepsZero(raw) ==
    [ i \in 1..Len(raw) |->
        [ symbol |-> raw[i].symbol,
          amt    |-> raw[i].positionAmt,
          pnl    |-> raw[i].unRealizedProfit,
          side   |-> IF raw[i].positionAmt > 0 THEN "LONG" ELSE "SHORT" ] ]

\* BinanceAPI.getPositions: drop the zero amounts, derive the side from the sign.
getPositions(raw) ==
    LET keep == SelectSeq(raw, LAMBDA e : e.positionAmt # 0)
    IN  [ i \in 1..Len(keep) |->
            [ symbol |-> keep[i].symbol,
              amt    |-> keep[i].positionAmt,
              pnl    |-> keep[i].unRealizedProfit,
              side   |-> IF keep[i].positionAmt > 0 THEN "LONG" ELSE "SHORT" ] ]

\* Mutation: the sign test of the close trigger is dropped.
ShouldCloseAnySign(pos) == Abs(pos.pnl) >= maxLossUsd

\* tick: `if (pos.pnl < 0) { const loss = Math.abs(pos.pnl); if (loss >= cfg.maxLossUsd)`
ShouldClose(pos) == pos.pnl < 0 /\ Abs(pos.pnl) >= maxLossUsd

\* Mutation: the tick does not look at the pause flag.
tickNeverSkips == FALSE

\* tick: `if (paused) return;`
tickSkipsClose == paused

\* roundQty: `(lot.stepSize.split('.')[1] || '').length`
RECURSIVE SegmentLen(_, _)
SegmentLen(str, i) ==
    IF i > Len(str) \/ str[i] = "." THEN 0 ELSE 1 + SegmentLen(str, i + 1)

RECURSIVE FirstDot(_, _)
FirstDot(str, i) ==
    IF i > Len(str) THEN 0 ELSE IF str[i] = "." THEN i ELSE FirstDot(str, i + 1)

Precision(stepSize) ==
    LET d == FirstDot(stepSize, 1)
    IN  IF d = 0 THEN 0 ELSE SegmentLen(stepSize, d + 1)

\* roundQty: the loop that fills symbolInfo from the exchangeInfo answer
\* (`if (lot?.stepSize)`: an empty stepSize is skipped).
fillSymbolInfo(info, answer) ==
    [ s \in Symbols |->
        IF s \in DOMAIN answer /\ Len(answer[s]) > 0 THEN Precision(answer[s]) ELSE info[s] ]

\* Number.prototype.toFixed on a non-negative amount, then parseFloat: the
\* nearest multiple of 10^-precision (the amounts of the model are never halfway
\* between two multiples, where the binary value of the number decides).
toFixed(q, precision) ==
    IF precision >= AmtDigits THEN q
    ELSE LET unit == Pow10(AmtDigits - precision)
         IN  ((2 * q + unit) \div (2 * unit)) * unit

\* roundQty: `const precision = this.symbolInfo.get(symbol) || 6;
\*            return parseFloat(qty.toFixed(precision));`
roundQty(info, symbol, q) ==
    LET precision == IF info[symbol] = NoInfo \/ info[symbol] = 0
                     THEN DefaultPrecision ELSE info[symbol]
    IN  toFixed(q, precision)

\* closePosition: `const side = pos.amt > 0 ? 'SELL' : 'BUY';`
closeSide(pos) == IF pos.amt > 0 THEN "SELL" ELSE "BUY"

\* Mutation: an order that is not FILLED yet is reported as a completed close.
outcomeKindCollapsed(status) ==
    IF status \in {"FILLED", "PARTIALLY_FILLED", "NEW"} THEN "closed" ELSE "unexpected"

\* closePosition: the notification chosen from result.status
outcomeKind(status) ==
    IF status = "FILLED" THEN "closed"
    ELSE IF status = "PARTIALLY_FILLED" \/ status = "NEW" THEN "partial"
    ELSE "unexpected"

\* A request, sleep or log line of closePosition.
Ev(op, a, b) == [op |-> op, a |-> a, b |-> b]

\* BinanceAPI.marketClose: the POST /fapi/v1/order request (a: quantity, b: side).
marketClose(symbol, side, q) ==
    [op |-> "marketClose", a |-> q, b |-> side,
     symbol |-> symbol, type |-> "MARKET", reduceOnly |-> "true"]

\* Mutation: closePosition always stops after the dry-run log line.
closeIsAlwaysDry == TRUE

\* Mutation: closePosition ignores cfg.dryRun.
closeIsNeverDry == FALSE

\* closePosition: `if (cfg.dryRun) { logWarn(...); return; }`
closeIsDry == dryRun

\* closePosition: index of the next algo order in state NEW at or after j, or 0.
RECURSIVE NextNew(_, _)
NextNew(l, j) ==
    IF j > Len(l) THEN 0
    ELSE IF l[j].algoStatus = "NEW" THEN j ELSE NextNew(l, j + 1)

\* tick: the for loop from index i on, up to the next suspension.  closePosition
\* is called for each position that ShouldClose; it suspends on the exchangeInfo
\* request when the symbol has no cached precision, returns after the dry-run
\* log line when cfg.dryRun, and otherwise suspends on cancelAllOrders.
RECURSIVE tickLoop(_, _, _, _, _)
tickLoop(ps, i, inv, tr, info) ==
    IF i > Len(ps) THEN [pc |-> "done", idx |-> 0, invoked |-> inv, trace |-> tr, qty |-> 0]
    ELSE IF ~ShouldClose(ps[i]) THEN tickLoop(ps, i + 1, inv, tr, info)
    ELSE IF info[ps[i].symbol] = NoInfo
         THEN [pc |-> "exchangeInfo", idx |-> i, invoked |-> Append(inv, i),
               trace |-> <<Ev("exchangeInfo", 0, "")>>, qty |-> 0]
    ELSE LET q == roundQty(info, ps[i].symbol, Abs(ps[i].amt))
         IN  IF closeIsDry
             THEN tickLoop(ps, i + 1, Append(inv, i),
                           <<Ev("logDry", q, closeSide(ps[i]))>>, info)
             ELSE [pc |-> "cancelAllOrders", idx |-> i, invoked |-> Append(inv, i),
                   trace |-> <<Ev("cancelAllOrders", 0, "")>>, qty |-> q]

\* --------------------------------------------------------------- detector

\* lastNotify.has(symbol) is false
NoTime == -1

\* The local state of a check cycle that is over.
IdleCheck == [pc |-> "idle", ps |-> <<>>, i |-> 0, hasNetworkError |-> FALSE]

\* No checkSL call was completed by the last step.
NoEvent ==
    [symbol |-> "", algo |-> "", open |-> "", result |-> "", notified |-> FALSE,
     since |-> NoTime, cleared |-> "no"]

\* checkSL: `const expectedSide = side === 'LONG' ? 'SELL' : 'BUY';`
expectedSide(side) == IF side = "LONG" THEN "SELL" ELSE "BUY"

\* checkSL: the test of one algo order
\* (`parseFloat(order.quantity || '0') > 0` on the numeric quantity).
algoProtects(order, side) ==
    /\ order.algoStatus = "NEW"
    /\ order.side = expectedSide(side)
    /\ order.orderType = "STOP" \/ order.orderType = "STOP_MARKET"
    /\ order.closePosition = TRUE \/ order.quantity > 0

\* Mutation: the close flag of a conventional order counts only as a boolean.
openProtectsBooleanOnly(order, side) ==
    /\ order.status = "NEW"
    /\ order.side = expectedSide(side)
    /\ order.type = "STOP" \/ order.type = "STOP_MARKET"
    /\ order.closePosition = "B:true" \/ order.origQty > 0

\* checkSL: the test of one conventional order
\* (`order.closePosition === 'true' || order.closePosition === true`).
openProtects(order, side) ==
    /\ order.status = "NEW"
    /\ order.side = expectedSide(side)
    /\ order.type = "STOP" \/ order.type = "STOP_MARKET"
    /\ \/ order.closePosition = "S:true" \/ order.closePosition = "B:true"
       \/ order.origQty > 0

\* checkSL: the loop over the algo orders returns true ("match") or ends.
algoOutcome(l, side) ==
    IF \E n \in 1..Len(l) : algoProtects(l[n], side) THEN "match" ELSE "nomatch"

\* checkSL: the loop over the conventional orders returns true ("match") or ends.
openOutcome(l, side) ==
    IF \E n \in 1..Len(l) : openProtects(l[n], side) THEN "match" ELSE "nomatch"

\* No order is under test.
NoProbe == [list |-> "none"]

\* Algo orders of every status, side, type, flag and quantity.
AlgoOrderSpace ==
    [ algoId : {1}, side : {"SELL", "BUY"},
      orderType : {"STOP", "STOP_MARKET", "TAKE_PROFIT_MARKET", "LIMIT"},
      algoStatus : {"NEW", "CANCELED"}, closePosition : BOOLEAN, quantity : {0, 105} ]

\* Conventional orders of every status, side, type, flag (JSON string or
\* boolean) and quantity.
OpenOrderSpace ==
    [ orderId : {1}, side : {"SELL", "BUY"},
      type : {"STOP", "STOP_MARKET", "TAKE_PROFIT_MARKET", "LIMIT"},
      status : {"NEW", "PARTIALLY_FILLED"},
      closePosition : {"S:true", "B:true", "S:false", "B:false"}, origQty : {0, 104} ]

\* The orders checkSL may meet in either list, beside a position of either side.
ProbeInputs ==
    [ list : {"algo"}, order : AlgoOrderSpace, side : {"LONG", "SHORT"}, verdict : {"none"} ]
    \cup
    [ list : {"open"}, order : OpenOrderSpace, side : {"LONG", "SHORT"}, verdict : {"none"} ]

\* Mutation: the throttle lets every alert through.
shouldNotifyAlways(symbol) == TRUE

\* Mutation: the throttle lets no alert through.
shouldNotifyNever(symbol) == FALSE

\* TelegramBot.shouldNotify: `now - (lastNotify.get(symbol) || 0) >= cfg.telegramInterval`
shouldNotify(symbol) ==
    LET last == IF lastNotify[symbol] = NoTime THEN 0 ELSE lastNotify[symbol]
    IN  now - last >= telegramInterval

\* Mutation: clearSymbol leaves the record in place.
clearSymbolKeeps(m, symbol) == m

\* TelegramBot.clearSymbol on the throttle map m: `this.lastNotify.delete(symbol)`
clearSymbol(m, symbol) == [m EXCEPT ![symbol] = NoTime]

\* check: clearSymbol for each symbol of S, in turn.
RECURSIVE clearSymbols(_, _)
clearSymbols(m, S) ==
    IF S = {} THEN m
    ELSE LET s == CHOOSE x \in S : TRUE
         IN  clearSymbols(clearSymbol(m, s), S \ {s})

\* Mutation: a symbol without cache entry is reported as one without stop-loss.
getStatusInfoCollapsed ==
    [ positions |-> [ i \in 1..Len(positions) |->
                        [ symbol |-> positions[i].symbol,
                          pnl    |-> positions[i].pnl,
                          hasSL  |-> IF cache[positions[i].symbol] = "true"
                                     THEN "true" ELSE "false" ] ],
      errors |-> errors ]

\* Mutation: after a failed tick the status report lists no position.
getStatusInfoDropsOnError ==
    [ positions |-> IF errors > 0 THEN <<>>
                    ELSE [ i \in 1..Len(positions) |->
                             [ symbol |-> positions[i].symbol,
                               pnl    |-> positions[i].pnl,
                               hasSL  |-> IF cache[positions[i].symbol] = "absent"
                                          THEN "null" ELSE cache[positions[i].symbol] ] ],
      errors |-> errors ]

\* cmdStatus: `p.hasSL === true ? ... : p.hasSL === false ? ... : ...`, the
\* check mark, the cross and the question mark of the status message.
statusMark(hasSL) ==
    IF hasSL = "true" THEN "protected"
    ELSE IF hasSL = "false" THEN "unprotected" ELSE "unknown"

\* PositionMonitor.getStatusInfo
getStatusInfo ==
    [ positions |-> [ i \in 1..Len(positions) |->
                        [ symbol |-> positions[i].symbol,
                          pnl    |-> positions[i].pnl,
                          hasSL  |-> IF cache[positions[i].symbol] = "absent"
                                     THEN "null" ELSE cache[positions[i].symbol] ] ],
      errors |-> errors ]

\* The steps of the monitor and of the commands leave the detector alone.
detectorIdle ==
    /\ slEvent' = NoEvent
    /\ UNCHANGED << cache, lastNotify, now, chk, alerts, running, lastTick, probe,
                    tgEvent >>

\* No update has been handled.
NoUpdate == [update |-> [kind |-> "none", chat |-> "none", text |-> <<>>], run |-> "none"]

\* ---------------------------------------------------------------- monitor

Fresh ==
    /\ paused = FALSE
    /\ dryRun \in BOOLEAN
    /\ positions = <<>>
    /\ errors = 0
    /\ symbolInfo = [s \in Symbols |-> NoInfo]
    /\ mpc = "init"
    /\ idx = 0
    /\ qty = 0
    /\ algoOrders = <<>>
    /\ aidx = 0
    /\ attempt = 0
    /\ invoked = <<>>
    /\ trace = <<>>
    /\ checked = "none"
    /\ lastFetched = <<>>
    /\ cache = [s \in Symbols |-> "absent"]
    /\ lastNotify = [s \in Symbols |-> NoTime]
    /\ now = telegramInterval
    /\ chk = EmptyBag
    /\ slEvent = NoEvent
    /\ alerts = [s \in Symbols |-> [at |-> NoTime, cleared |-> "no"]]
    /\ running = FALSE
    /\ lastTick = 0
    /\ tgEvent = NoUpdate

Init == Fresh /\ probe = NoProbe

closeLocals == << qty, algoOrders, aidx, attempt >>

\* Mutation: a completed tick leaves the error counter alone.
resumeKeepsErrors(t) ==
    /\ mpc' = IF t.pc = "done" THEN "sleep" ELSE t.pc
    /\ errors' = errors
    /\ idx' = t.idx
    /\ qty' = t.qty
    /\ invoked' = t.invoked
    /\ trace' = t.trace
    /\ algoOrders' = <<>>
    /\ aidx' = 0
    /\ attempt' = 0

\* start: `await this.tick(); this.errors = 0;` then `await sleep(cfg.intervalMs)`,
\* or the next suspension of the tick's loop.
resume(t) ==
    /\ mpc' = IF t.pc = "done" THEN "sleep" ELSE t.pc
    /\ errors' = IF t.pc = "done" THEN 0 ELSE errors
    /\ idx' = t.idx
    /\ qty' = t.qty
    /\ invoked' = t.invoked
    /\ trace' = t.trace
    /\ algoOrders' = <<>>
    /\ aidx' = 0
    /\ attempt' = 0

\* Mutation: the exception of a tick leaves the while loop of start.
tickThrowsStops(cap) ==
    /\ errors < cap
    /\ errors' = errors + 1
    /\ mpc' = "stopped"
    /\ idx' = 0
    /\ qty' = 0
    /\ algoOrders' = <<>>
    /\ aidx' = 0
    /\ attempt' = 0

\* Mutation: the 30 s sleep starts one error late.
needsCooldownLate(n) == n > 10

\* start: `if (this.errors >= 10) { logWarn(...); await sleep(30000); }`
needsCooldown(n) == n >= 10

\* start: the catch branch, `this.errors++` and, from 10 errors on, the 30 s sleep.
tickThrows(cap) ==
    /\ errors < cap
    /\ errors' = errors + 1
    /\ mpc' = IF needsCooldown(errors + 1) THEN "cooldown" ELSE "sleep"
    /\ idx' = 0
    /\ qty' = 0
    /\ algoOrders' = <<>>
    /\ aidx' = 0
    /\ attempt' = 0

\* Mutation: ticks are started by a timer, whatever the previous one is doing.
loopOnTimer == mpc # "getPositions"

\* start: the loop is about to call tick: at its first iteration, or when
\* `await sleep(cfg.intervalMs)` of the previous iteration ends.
loopAtTick == mpc \in {"init", "sleep"}

\* start: the loop calls tick, which issues the positionRisk request.
TickStart ==
    /\ loopAtTick
    /\ mpc' = "getPositions"
    /\ invoked' = <<>>
    /\ trace' = <<>>
    /\ checked' = "none"
    /\ UNCHANGED << paused, dryRun, positions, errors, symbolInfo, idx, closeLocals, lastFetched >>
    /\ detectorIdle

\* tick: the positionRisk request answers; the snapshot is replaced, and unless
\* paused the loop runs up to its first suspension.
GetPositionsReturn(Raw) ==
    /\ mpc = "getPositions"
    /\ \E raw \in Raw :
         LET ps == getPositions(raw)
         IN  /\ positions' = ps
             /\ lastFetched' = raw
             /\ checked' = IF paused THEN "paused" ELSE "active"
             /\ IF tickSkipsClose
                THEN resume([pc |-> "done", idx |-> 0, invoked |-> invoked,
                             trace |-> trace, qty |-> 0])
                ELSE resume(tickLoop(ps, 1, <<>>, <<>>, symbolInfo))
    /\ UNCHANGED << paused, dryRun, symbolInfo >>
    /\ detectorIdle

\* tick: the positionRisk request fails and the tick throws.
GetPositionsFail(cap) ==
    /\ mpc = "getPositions"
    /\ tickThrows(cap)
    /\ UNCHANGED << paused, dryRun, positions, symbolInfo, invoked, trace, checked, lastFetched >>
    /\ detectorIdle

\* start: the 30 s sleep ends; the poll-interval sleep follows.
CooldownDone ==
    /\ mpc = "cooldown"
    /\ mpc' = "sleep"
    /\ UNCHANGED << paused, dryRun, positions, errors, symbolInfo, idx, closeLocals,
                    invoked, trace, checked, lastFetched >>
    /\ detectorIdle

\* Request and timer states of closePosition.
monitorFrame == << paused, dryRun, positions, errors, checked, lastFetched >>

\* roundQty: the exchangeInfo request answers; the cache is filled, the quantity
\* rounded, and closePosition goes on to the dry-run return or to cancelAllOrders.
ExchangeInfoReturn ==
    /\ mpc = "exchangeInfo"
    /\ \E answer \in ExchangeInfos :
         LET info == fillSymbolInfo(symbolInfo, answer)
             pos == positions[idx]
             q == roundQty(info, pos.symbol, Abs(pos.amt))
         IN  /\ symbolInfo' = info
             /\ IF closeIsDry
                THEN resume(tickLoop(positions, idx + 1, invoked,
                                     Append(trace, Ev("logDry", q, closeSide(pos))), info))
                ELSE /\ mpc' = "cancelAllOrders"
                     /\ qty' = q
                     /\ trace' = Append(trace, Ev("cancelAllOrders", 0, ""))
                     /\ errors' = errors
                     /\ UNCHANGED << idx, algoOrders, aidx, attempt, invoked >>
    /\ UNCHANGED << paused, dryRun, positions, checked, lastFetched >>
    /\ detectorIdle

\* roundQty: the exchangeInfo request fails; roundQty is awaited outside every
\* try block of closePosition, so closePosition and the tick throw.
ExchangeInfoFail(cap) ==
    /\ mpc = "exchangeInfo"
    /\ tickThrows(cap)
    /\ UNCHANGED << paused, dryRun, positions, symbolInfo, invoked, trace, checked, lastFetched >>
    /\ detectorIdle

\* closePosition: cancelAllOrders returns, and the algo orders are requested.
CancelAllOrdersReturn ==
    /\ mpc = "cancelAllOrders"
    /\ trace' = Append(trace, Ev("getAlgoOrders", 0, ""))
    /\ mpc' = "getAlgoOrders"
    /\ UNCHANGED << monitorFrame, symbolInfo, idx, closeLocals, invoked >>
    /\ detectorIdle

\* Mutation: the failure of cancelAllOrders leaves closePosition and the tick.
cancelAllCatchRethrows ==
    /\ errors < MaxErrors
    /\ errors' = errors + 1
    /\ mpc' = "sleep"
    /\ idx' = 0
    /\ qty' = 0
    /\ algoOrders' = <<>>
    /\ aidx' = 0
    /\ attempt' = 0
    /\ trace' = Append(trace, Ev("failed", 0, "cancelAllOrders"))
    /\ UNCHANGED << paused, dryRun, positions, symbolInfo, invoked, checked, lastFetched >>

\* closePosition: `try { await this.api.cancelAllOrders(pos.symbol); } catch {}`:
\* the failure is dropped (the trace keeps it) and the algo orders are requested.
cancelAllCatch ==
    /\ trace' = trace \o << Ev("failed", 0, "cancelAllOrders"), Ev("getAlgoOrders", 0, "") >>
    /\ mpc' = "getAlgoOrders"
    /\ UNCHANGED << monitorFrame, symbolInfo, idx, closeLocals, invoked >>

\* closePosition: cancelAllOrders fails.
CancelAllOrdersFail ==
    /\ mpc = "cancelAllOrders"
    /\ cancelAllCatch
    /\ detectorIdle

\* Mutation: the retried function cancels the orders again before it submits.
retryCallCancelsAgain ==
    << Ev("cancelAllOrders", 0, ""),
       marketClose(positions[idx].symbol, closeSide(positions[idx]), qty) >>

\* retry: `await fn()` with fn = () => this.api.marketClose(pos.symbol, side, qty.toString())
retryCall ==
    << marketClose(positions[idx].symbol, closeSide(positions[idx]), qty) >>

\* closePosition: retry's first call of marketClose.
startRetry(tr) ==
    /\ mpc' = "marketClose"
    /\ attempt' = 1
    /\ algoOrders' = <<>>
    /\ aidx' = 0
    /\ trace' = tr \o retryCall

\* closePosition: the cancel request for the algo order at index j of list l.
cancelFrom(l, j, tr) ==
    IF j = 0
    THEN startRetry(tr)
    ELSE /\ mpc' = "cancelAlgoOrder"
         /\ algoOrders' = l
         /\ aidx' = j
         /\ attempt' = attempt
         /\ trace' = Append(tr, Ev("cancelAlgoOrder", l[j].algoId, ""))

\* closePosition: the algo order list arrives; the first order in state NEW is
\* cancelled, or the close is submitted when there is none.
GetAlgoOrdersReturn ==
    /\ mpc = "getAlgoOrders"
    /\ \E l \in AlgoOrderLists : cancelFrom(l, NextNew(l, 1), trace)
    /\ UNCHANGED << monitorFrame, symbolInfo, idx, qty, invoked >>
    /\ detectorIdle

\* closePosition: the algo order request fails; the catch block is empty.
GetAlgoOrdersFail ==
    /\ mpc = "getAlgoOrders"
    /\ startRetry(trace)
    /\ UNCHANGED << monitorFrame, symbolInfo, idx, qty, invoked >>
    /\ detectorIdle

\* closePosition: a cancel request succeeds; the loop goes on to the next order
\* in state NEW.
CancelAlgoOrderReturn ==
    /\ mpc = "cancelAlgoOrder"
    /\ cancelFrom(algoOrders, NextNew(algoOrders, aidx + 1), trace)
    /\ UNCHANGED << monitorFrame, symbolInfo, idx, qty, invoked >>
    /\ detectorIdle

\* closePosition: a cancel request fails; the exception leaves the for loop for
\* the empty catch block.
CancelAlgoOrderFail ==
    /\ mpc = "cancelAlgoOrder"
    /\ startRetry(trace)
    /\ UNCHANGED << monitorFrame, symbolInfo, idx, qty, invoked >>
    /\ detectorIdle

\* retry / closePosition: marketClose answers; the status picks the log line and
\* the notification, which is sent.
MarketCloseReturn ==
    /\ mpc = "marketClose"
    /\ \E status \in CloseStatuses :
         LET kind == outcomeKind(status)
             line == IF kind = "closed" THEN "logSuccess"
                     ELSE IF kind = "partial" THEN "logWarn" ELSE "logError"
         IN  trace' = trace \o << Ev(line, 0, status), Ev("send", 0, kind) >>
    /\ mpc' = "send"
    /\ UNCHANGED << monitorFrame, symbolInfo, idx, closeLocals, invoked >>
    /\ detectorIdle

\* Mutation: retry also sleeps, and goes on, after the last attempt.
retrySleepsAlways(i) == i <= attempts

\* retry: `if (i < attempts) { logWarn(...); await sleep(delayMs); }`
retrySleeps(i) == i < attempts

\* Mutation: the catch block around retry logs and rethrows, so the exhausted
\* close ends the tick.
closeCatchRethrows ==
    /\ errors < MaxErrors
    /\ errors' = errors + 1
    /\ mpc' = "sleep"
    /\ idx' = 0
    /\ qty' = 0
    /\ algoOrders' = <<>>
    /\ aidx' = 0
    /\ attempt' = 0
    /\ trace' = Append(trace, Ev("logError", 0, "failed"))
    /\ UNCHANGED << paused, dryRun, positions, symbolInfo, invoked, checked, lastFetched >>

\* closePosition: `catch (e) { logError(...); await this.telegram.send(...); }`
\* around retry.
closeCatch ==
    /\ mpc' = "send"
    /\ trace' = trace \o << Ev("logError", 0, "failed"), Ev("send", 0, "failed") >>
    /\ UNCHANGED << monitorFrame, symbolInfo, idx, closeLocals, invoked >>

\* retry / closePosition: marketClose fails; retry sleeps before the next
\* attempt, or rethrows after the last one to closePosition's catch block.
MarketCloseFail ==
    /\ mpc = "marketClose"
    /\ IF retrySleeps(attempt)
       THEN /\ mpc' = "retrySleep"
            /\ trace' = trace \o << Ev("logWarn", attempt, "retry"), Ev("sleep", attempt, "") >>
            /\ UNCHANGED << monitorFrame, symbolInfo, idx, closeLocals, invoked >>
       ELSE closeCatch
    /\ detectorIdle

\* retry: the delay ends and fn is called again.
RetrySleepDone ==
    /\ mpc = "retrySleep"
    /\ mpc' = "marketClose"
    /\ attempt' = attempt + 1
    /\ trace' = trace \o retryCall
    /\ UNCHANGED << monitorFrame, symbolInfo, idx, qty, algoOrders, aidx, invoked >>
    /\ detectorIdle

\* closePosition: telegram.send returns (it never throws); closePosition returns
\* and the tick's loop goes on.
SendDone ==
    /\ mpc = "send"
    /\ resume(tickLoop(positions, idx + 1, invoked, trace, symbolInfo))
    /\ UNCHANGED << paused, dryRun, positions, symbolInfo, checked, lastFetched >>
    /\ detectorIdle

\* --------------------------------------------------------------- commands

\* Mutation: the pause command toggles the flag.
CmdPauseToggles ==
    /\ paused' = ~paused
    /\ UNCHANGED << dryRun, positions, errors, symbolInfo, mpc, idx, closeLocals,
                    invoked, trace, checked, lastFetched >>
    /\ detectorIdle

\* TelegramBot.cmdPause: `paused = true`
CmdPause ==
    /\ paused' = TRUE
    /\ UNCHANGED << dryRun, positions, errors, symbolInfo, mpc, idx, closeLocals,
                    invoked, trace, checked, lastFetched >>
    /\ detectorIdle

\* TelegramBot.cmdResume: `paused = false`
CmdResume ==
    /\ paused' = FALSE
    /\ UNCHANGED << dryRun, positions, errors, symbolInfo, mpc, idx, closeLocals,
                    invoked, trace, checked, lastFetched >>
    /\ detectorIdle

\* ---------------------------------------------------------- telegram updates

\* Message texts, as their words after trim (<<>>: a message without text), and
\* callback data (<<>>: a callback without data).
MessageTexts ==
    { <<>>, <<"/pause">>, <<"/PAUSE", "now">>, <<"/resume">>, <<"/Status">>, <<"/help">>,
      <<"pause">>, <<"hello">> }

CallbackData == { <<>>, <<"pause">>, <<"resume">>, <<"status">>, <<"/pause">> }

\* Updates of getUpdates: messages and inline-button callbacks, from the
\* configured chat ("own") or from another one.
Updates ==
    [ kind : {"message"}, chat : {"own", "other"}, text : MessageTexts ]
    \cup [ kind : {"callback"}, chat : {"own", "other"}, text : CallbackData ]

\* String.prototype.toLowerCase on the command words of the model.
toLowerCase(w) ==
    IF w = "/PAUSE" THEN "/pause"
    ELSE IF w = "/Status" THEN "/status"
    ELSE w

\* handleUpdate / handleCallback: the command an update runs.  A callback is
\* dispatched on its data (`if (!data) return`); a message needs a text, the
\* configured chat (`if (chatId !== cfg.telegramChatId) return`) and a known
\* first word, lower-cased.
commandOf(u) ==
    IF u.text = <<>> THEN "none"
    ELSE IF u.kind = "callback"
    THEN (IF u.text[1] \in {"status", "pause", "resume"} THEN u.text[1] ELSE "none")
    ELSE IF u.chat # "own" THEN "none"
    ELSE LET cmd == toLowerCase(u.text[1])
         IN  IF cmd \in {"/start", "/help"} THEN "help"
             ELSE IF cmd = "/status" THEN "status"
             ELSE IF cmd = "/pause" THEN "pause"
             ELSE IF cmd = "/resume" THEN "resume"
             ELSE "none"

\* poll: handleUpdate handles one update: cmdPause and cmdResume set the flag,
\* cmdStatus and cmdHelp only send.
HandleUpdate ==
    /\ \E u \in Updates :
         LET run == commandOf(u)
         IN  /\ paused' = (IF run = "pause" THEN TRUE
                           ELSE IF run = "resume" THEN FALSE ELSE paused)
             /\ tgEvent' = [update |-> u, run |-> run]
    /\ slEvent' = NoEvent
    /\ UNCHANGED << dryRun, positions, errors, symbolInfo, mpc, idx, closeLocals, invoked,
                    trace, checked, lastFetched, cache, lastNotify, now, chk, alerts,
                    running, lastTick, probe >>

\* ---------------------------------------------------------- detector steps

\* The steps of the detector leave the monitor and the pause flag alone.
monitorIdle ==
    UNCHANGED << paused, dryRun, positions, errors, symbolInfo, mpc, idx, qty, algoOrders,
                 aidx, attempt, invoked, trace, checked, lastFetched, running, lastTick,
                 probe, tgEvent >>

SymbolsOf(ps) == { ps[i].symbol : i \in 1..Len(ps) }

\* Mutation: the for loop reads the monitor's snapshot anew at every position.
nextCheckRereads(c) ==
    IF c.i + 1 <= Len(positions)
    THEN [pc |-> "getAlgoOrders", ps |-> positions, i |-> c.i + 1, hasNetworkError |-> FALSE]
    ELSE IdleCheck

\* Mutation: the exception of checkSL after a failed algo request leaves the
\* for loop of check.
nextCheckStopsOnError(c) ==
    IF c.hasNetworkError THEN IdleCheck
    ELSE IF c.i + 1 <= Len(c.ps)
    THEN [pc |-> "getAlgoOrders", ps |-> c.ps, i |-> c.i + 1, hasNetworkError |-> FALSE]
    ELSE IdleCheck

\* check: the for loop goes on to the next position and calls checkSL, which
\* requests the algo orders; after the last position the cycle is over.
nextCheck(c) ==
    IF c.i + 1 <= Len(c.ps)
    THEN [pc |-> "getAlgoOrders", ps |-> c.ps, i |-> c.i + 1, hasNetworkError |-> FALSE]
    ELSE IdleCheck

\* Mutation: checkSL asks for the conventional orders whatever it found.
needsOpenOrdersAlways(algo) == TRUE

\* checkSL: the conventional orders are requested unless the loop over the algo
\* orders returned true: after a list without protection, and after a failure.
needsOpenOrders(algo) == algo # "match"

\* Mutation: checkSL forgets the failed request and reports "no stop-loss".
checkSLForgetsError(hasNetworkError, open) ==
    IF open = "match" THEN "true" ELSE "false"

\* Mutation: checkSL throws after any failed request, whatever it found.
checkSLThrowsFirst(hasNetworkError, open) ==
    IF hasNetworkError THEN "throws"
    ELSE IF open = "match" THEN "true" ELSE "false"

\* checkSL, from the conventional order request on: true on a protecting order,
\* otherwise `if (hasNetworkError) throw new Error('Network error'); return false;`
checkSLResult(hasNetworkError, open) ==
    IF open = "match" THEN "true"
    ELSE IF hasNetworkError THEN "throws"
    ELSE "false"

\* Mutation: a regained stop-loss leaves the throttle entry alone.
regainedNever(prev) == FALSE

\* check: `else if (prev && !prev.hasSL)`, prev being the cache entry before the
\* write.
regained(prev) == prev = "false"

\* The bag of cycles after the cycle in state c has moved to state d, or ended.
moved(c, d) ==
    (chk (-) SetToBag({c})) (+) (IF d.pc = "idle" THEN EmptyBag ELSE SetToBag({d}))

\* check: what follows the return (or the exception) of checkSL in the cycle in
\* state c: the cache entry is written, an absent stop-loss is notified when the
\* throttle allows, a regained stop-loss clears the throttle entry.
finishCheckSL(c, algo, open, result) ==
    LET sym == c.ps[c.i].symbol
        notify == result = "false" /\ shouldNotify(sym)
        clear == result = "true" /\ regained(cache[sym])
    IN  /\ cache' = IF result = "throws" THEN cache ELSE [cache EXCEPT ![sym] = result]
        /\ lastNotify' =
              IF notify THEN [lastNotify EXCEPT ![sym] = now]
              ELSE IF clear THEN clearSymbol(lastNotify, sym)
              ELSE lastNotify
        /\ chk' = moved(c, IF notify THEN [c EXCEPT !.pc = "send"] ELSE nextCheck(c))
        /\ slEvent' = [symbol |-> sym, algo |-> algo, open |-> open,
                       result |-> result, notified |-> notify,
                       since |-> IF result = "false" /\ alerts[sym].at # NoTime
                                 THEN now - alerts[sym].at ELSE NoTime,
                       cleared |-> IF result = "false" THEN alerts[sym].cleared ELSE "no"]
        /\ alerts' =
              IF notify THEN [alerts EXCEPT ![sym] = [at |-> now, cleared |-> "no"]]
              ELSE IF clear /\ alerts[sym].at # NoTime
                   THEN [alerts EXCEPT ![sym].cleared = "regained"]
              ELSE alerts
        /\ UNCHANGED now

\* Mutation: check evicts nothing.
evictedNone(ps) == {}

\* check: the cache keys that are not in the snapshot:
\* `for (const symbol of this.cache.keys()) if (!positions.find(...))`
evicted(ps) == { s \in Symbols : cache[s] # "absent" /\ s \notin SymbolsOf(ps) }

\* SLChecker.check starts (from start or from the interval timer), whether or
\* not earlier cycles are over: it takes the monitor's snapshot, evicts the
\* cached symbols that left it, and calls checkSL for the first position.
CheckStart ==
    /\ BagCardinality(chk) < MaxChecks
    /\ LET gone == evicted(positions)
       IN  /\ cache' = [s \in Symbols |-> IF s \in gone THEN "absent" ELSE cache[s]]
           /\ lastNotify' = clearSymbols(lastNotify, gone)
           /\ alerts' = [s \in Symbols |->
                           IF s \in gone /\ alerts[s].at # NoTime
                           THEN [alerts[s] EXCEPT !.cleared = "evicted"] ELSE alerts[s]]
    /\ chk' = moved(IdleCheck,
                    nextCheck([pc |-> "idle", ps |-> positions, i |-> 0, hasNetworkError |-> FALSE]))
    /\ slEvent' = NoEvent
    /\ UNCHANGED now
    /\ monitorIdle

\* checkSL: the algo order list arrives; a protecting order ends the check,
\* otherwise the conventional orders are requested.
CheckAlgoReturn(c) ==
    /\ c.pc = "getAlgoOrders"
    /\ \E algo \in { algoOutcome(l, c.ps[c.i].side) : l \in AlgoOrderLists } :
             IF needsOpenOrders(algo)
             THEN /\ chk' = moved(c, [c EXCEPT !.pc = "getOpenOrders"])
                  /\ slEvent' = [NoEvent EXCEPT !.symbol = c.ps[c.i].symbol, !.algo = algo]
                  /\ UNCHANGED << cache, lastNotify, now, alerts >>
             ELSE finishCheckSL(c, algo, "none", "true")
    /\ monitorIdle

\* checkSL: the algo order request fails; the conventional orders are requested.
CheckAlgoFail(c) ==
    /\ c.pc = "getAlgoOrders"
    /\ chk' = moved(c, [c EXCEPT !.pc = "getOpenOrders", !.hasNetworkError = TRUE])
    /\ slEvent' = [NoEvent EXCEPT !.symbol = c.ps[c.i].symbol, !.algo = "fail"]
    /\ UNCHANGED << cache, lastNotify, now, alerts >>
    /\ monitorIdle

\* checkSL: the conventional order list arrives.
CheckOpenReturn(c) ==
    /\ c.pc = "getOpenOrders"
    /\ \E open \in { openOutcome(l, c.ps[c.i].side) : l \in OpenOrderLists } :
             finishCheckSL(c, IF c.hasNetworkError THEN "fail" ELSE "nomatch", open,
                           checkSLResult(c.hasNetworkError, open))
    /\ monitorIdle

\* checkSL: the conventional order request fails.
CheckOpenFail(c) ==
    /\ c.pc = "getOpenOrders"
    /\ finishCheckSL(c, IF c.hasNetworkError THEN "fail" ELSE "nomatch", "fail",
                     checkSLResult(TRUE, "fail"))
    /\ monitorIdle

\* check: telegram.send returns; the loop goes on.
CheckSendDone(c) ==
    /\ c.pc = "send"
    /\ chk' = moved(c, nextCheck(c))
    /\ slEvent' = NoEvent
    /\ UNCHANGED << cache, lastNotify, now, alerts >>
    /\ monitorIdle

\* Time passes.
ClockTick ==
    /\ now < telegramInterval + MaxTime
    /\ now' = now + 1
    /\ slEvent' = NoEvent
    /\ UNCHANGED << cache, lastNotify, chk, alerts >>
    /\ monitorIdle

\* Cap of the consecutive-error counter while the loop is studied: beyond the
\* 10 errors that start the 30 s sleep.
ErrCap == 10 + MaxErrors

\* ------------------------------------------------------ checkSL on one order

\* What the test of one order leaves alone.
probeFrame ==
    UNCHANGED << paused, dryRun, positions, errors, symbolInfo, mpc, idx, qty, algoOrders,
                 aidx, attempt, invoked, trace, checked, lastFetched, cache, lastNotify,
                 now, chk, slEvent, alerts, running, lastTick, tgEvent >>

\* checkSL: the body of the loop over the algo orders, for one order.
TestAlgoOrder ==
    /\ probe.list = "algo"
    /\ probe.verdict = "none"
    /\ probe' = [probe EXCEPT !.verdict =
                    IF algoProtects(probe.order, probe.side) THEN "true" ELSE "continue"]
    /\ probeFrame

\* checkSL: the body of the loop over the conventional orders, for one order.
TestOpenOrder ==
    /\ probe.list = "open"
    /\ probe.verdict = "none"
    /\ probe' = [probe EXCEPT !.verdict =
                    IF openProtects(probe.order, probe.side) THEN "true" ELSE "continue"]
    /\ probeFrame

NextMatch == TestAlgoOrder \/ TestOpenOrder

\* checkSL's two loop bodies on every order of the order spaces.
\* Any order of either list, beside a position of either side.
InitMatch == Fresh /\ dryRun = FALSE /\ probe \in ProbeInputs

SpecMatch == InitMatch /\ [][NextMatch]_vars

\* ------------------------------------------------------ health (src/index.ts)

\* Mutation: the health report ignores the error count.
getHealthIgnoresErrors ==
    [ healthy |-> running, lastTick |-> lastTick, errors |-> errors ]

\* PositionMonitor.getHealth of src/index.ts
getHealth ==
    [ healthy |-> running /\ errors < 10, lastTick |-> lastTick, errors |-> errors ]

\* serve: `status: health.healthy ? 200 : 503`
serve == IF getHealth.healthy THEN 200 ELSE 503

\* What the steps of the loop of src/index.ts leave alone.
healthFrame ==
    /\ slEvent' = NoEvent
    /\ UNCHANGED << paused, dryRun, positions, symbolInfo, invoked, trace, checked,
                    lastFetched, cache, lastNotify, now, chk, alerts, probe, tgEvent >>

\* start of src/index.ts: `this.running = true`, and the loop calls tick.
IndexStart ==
    /\ mpc = "init"
    /\ running' = TRUE
    /\ mpc' = "tick"
    /\ UNCHANGED << errors, lastTick, idx, closeLocals >>
    /\ healthFrame

\* start of src/index.ts: `await this.tick(); this.lastTick = Date.now();
\* this.errors = 0;` and the poll sleep.
IndexTickReturn ==
    /\ mpc = "tick"
    /\ lastTick' = now
    /\ errors' = 0
    /\ mpc' = "sleep"
    /\ UNCHANGED << running, idx, closeLocals >>
    /\ healthFrame

\* start of src/index.ts: tick throws; the catch block counts the error and
\* sleeps 30 s from 10 errors on.
IndexTickThrow ==
    /\ mpc = "tick"
    /\ tickThrows(ErrCap)
    /\ UNCHANGED << running, lastTick >>
    /\ healthFrame

\* start of src/index.ts: `await sleep(cfg.intervalMs)` ends and the loop calls
\* tick again.
IndexSleepDone ==
    /\ mpc = "sleep"
    /\ mpc' = "tick"
    /\ UNCHANGED << running, errors, lastTick, idx, closeLocals >>
    /\ healthFrame

\* ---------------------------------------------------------- specifications

\* The monitor loop with the commands, under every answer of the exchange.
Next ==
    \/ TickStart
    \/ GetPositionsReturn(RawLists)
    \/ GetPositionsFail(MaxErrors)
    \/ ExchangeInfoReturn
    \/ ExchangeInfoFail(MaxErrors)
    \/ CancelAllOrdersReturn
    \/ CancelAllOrdersFail
    \/ GetAlgoOrdersReturn
    \/ GetAlgoOrdersFail
    \/ CancelAlgoOrderReturn
    \/ CancelAlgoOrderFail
    \/ MarketCloseReturn
    \/ MarketCloseFail
    \/ RetrySleepDone
    \/ SendDone
    \/ CmdPause
    \/ CmdResume

Spec == Init /\ [][Next]_vars

\* Answers of /fapi/v2/positionRisk while the loop is studied: a long BTCUSDT
\* position with a loss beyond the threshold, alone, followed by a short
\* ETHUSDT position with a loss at the threshold, or no position.
LoopRawLists ==
    { l \in RawLists :
        /\ Len(l) > 0 => l[1].symbol = "BTCUSDT"
        /\ \A i \in 1..Len(l) :
             IF l[i].symbol = "BTCUSDT"
             THEN l[i].positionAmt = 104 /\ l[i].unRealizedProfit = -150
             ELSE l[i].positionAmt = -106 /\ l[i].unRealizedProfit = -100 }

\* The monitor loop alone, through long runs of failing ticks.
NextLoop ==
    \/ TickStart
    \/ GetPositionsReturn(LoopRawLists)
    \/ GetPositionsFail(ErrCap)
    \/ CooldownDone
    \/ ExchangeInfoReturn
    \/ ExchangeInfoFail(ErrCap)
    \/ CancelAllOrdersReturn
    \/ CancelAllOrdersFail
    \/ GetAlgoOrdersReturn
    \/ GetAlgoOrdersFail
    \/ CancelAlgoOrderReturn
    \/ CancelAlgoOrderFail
    \/ MarketCloseReturn
    \/ MarketCloseFail
    \/ RetrySleepDone
    \/ SendDone

SpecLoop == Init /\ [][NextLoop]_vars

\* The same, with progress: every timer ends, and every request is answered or
\* fails in the end.
SpecLoopFair ==
    /\ SpecLoop
    /\ WF_vars(TickStart)
    /\ WF_vars(CooldownDone)
    /\ WF_vars(RetrySleepDone)
    /\ WF_vars(GetPositionsReturn(LoopRawLists) \/ GetPositionsFail(ErrCap))
    /\ WF_vars(ExchangeInfoReturn \/ ExchangeInfoFail(ErrCap))
    /\ WF_vars(CancelAllOrdersReturn \/ CancelAllOrdersFail)
    /\ WF_vars(GetAlgoOrdersReturn \/ GetAlgoOrdersFail)
    /\ WF_vars(CancelAlgoOrderReturn \/ CancelAlgoOrderFail)
    /\ WF_vars(MarketCloseReturn \/ MarketCloseFail)
    /\ WF_vars(SendDone)

\* marketClose answers for a position of the given symbol.
MarketCloseReturnFor(symbol) ==
    /\ idx > 0
    /\ positions[idx].symbol = symbol
    /\ MarketCloseReturn

\* The same, with an exchange whose calls succeed in the end: a request that is
\* made again and again is answered at some time.
SpecLoopLive ==
    /\ SpecLoopFair
    /\ SF_vars(GetPositionsReturn(LoopRawLists))
    /\ SF_vars(ExchangeInfoReturn)
    /\ \A s \in Symbols : SF_vars(MarketCloseReturnFor(s))

\* The detector beside a monitor that finds no loss to close, within one
\* notification interval.
NextSL ==
    \/ TickStart
    \/ GetPositionsReturn(WatchRawLists)
    \/ CheckStart
    \/ \E c \in BagToSet(chk) :
         \/ CheckAlgoReturn(c)
         \/ CheckAlgoFail(c)
         \/ CheckOpenReturn(c)
         \/ CheckOpenFail(c)
         \/ CheckSendDone(c)

\* The detector never reads cfg.dryRun.
InitSL == Init /\ dryRun = FALSE

SpecSL == InitSL /\ [][NextSL]_vars

\* The monitor loop of src/index.ts with its health report, and the clock.
NextHealth ==
    \/ IndexStart
    \/ IndexTickReturn
    \/ IndexTickThrow
    \/ CooldownDone
    \/ IndexSleepDone
    \/ ClockTick

SpecHealth == Init /\ [][NextHealth]_vars

\* Answers of /fapi/v2/positionRisk while the status snapshot is studied: both
\* positions, or none.
StatusRawLists == { l \in WatchRawLists : Len(l) # 1 }

\* Answers of /fapi/v2/positionRisk while the failing fetch is studied: a long
\* BTCUSDT position with a loss beyond the threshold, or no position.
KeepRawLists == { l \in LoopRawLists : Len(l) <= 1 }

\* The detector beside a dry-run monitor that finds a loss to close, and whose
\* ticks complete or fail.
NextKeep ==
    \/ TickStart
    \/ GetPositionsReturn(KeepRawLists)
    \/ GetPositionsFail(MaxErrors)
    \/ ExchangeInfoReturn
    \/ ExchangeInfoFail(MaxErrors)
    \/ CheckStart
    \/ \E c \in BagToSet(chk) :
         \/ CheckAlgoReturn(c)
         \/ CheckAlgoFail(c)
         \/ CheckOpenReturn(c)
         \/ CheckOpenFail(c)
         \/ CheckSendDone(c)

\* cfg.dryRun is set.
InitKeep == Init /\ dryRun = TRUE

SpecKeep == InitKeep /\ [][NextKeep]_vars

\* The updates of the bot beside a monitor whose ticks complete or fail.
NextTg ==
    \/ HandleUpdate
    \/ TickStart
    \/ GetPositionsReturn(StatusRawLists)
    \/ GetPositionsFail(MaxErrors)

SpecTg == InitSL /\ [][NextTg]_vars

\* The detector beside a monitor whose ticks complete or fail.
NextStatus ==
    \/ TickStart
    \/ GetPositionsReturn(StatusRawLists)
    \/ GetPositionsFail(MaxErrors)
    \/ CheckStart
    \/ \E c \in BagToSet(chk) :
         \/ CheckAlgoReturn(c)
         \/ CheckAlgoFail(c)
         \/ CheckOpenReturn(c)
         \/ CheckOpenFail(c)
         \/ CheckSendDone(c)

SpecStatus == InitSL /\ [][NextStatus]_vars

\* Answers of /fapi/v2/positionRisk while the throttle is studied: a long
\* BTCUSDT position with a loss under the threshold, present or not.
ThrottleRawLists == { l \in WatchRawLists : \A i \in 1..Len(l) : l[i].symbol = "BTCUSDT" }

\* The detector and the clock beside a monitor that finds no loss to close.
NextTh ==
    \/ TickStart
    \/ GetPositionsReturn(ThrottleRawLists)
    \/ CheckStart
    \/ \E c \in BagToSet(chk) :
         \/ CheckAlgoReturn(c)
         \/ CheckAlgoFail(c)
         \/ CheckOpenReturn(c)
         \/ CheckOpenFail(c)
         \/ CheckSendDone(c)
    \/ ClockTick

SpecTh == InitSL /\ [][NextTh]_vars

\* The same, with progress: the interval timer keeps starting cycles, the
\* monitor loop keeps polling, every request is answered or fails in the end,
\* and time passes.
SpecThFair ==
    /\ SpecTh
    /\ WF_vars(TickStart)
    /\ WF_vars(GetPositionsReturn(ThrottleRawLists))
    /\ WF_vars(CheckStart)
    /\ WF_vars(\E c \in BagToSet(chk) :
                  \/ CheckAlgoReturn(c) \/ CheckAlgoFail(c)
                  \/ CheckOpenReturn(c) \/ CheckOpenFail(c)
                  \/ CheckSendDone(c))
    /\ WF_vars(ClockTick)

\* ------------------------------------------------------------- properties

\* The monitor is inside closePosition, suspended on one of its requests.
InClose ==
    mpc \in {"exchangeInfo", "cancelAllOrders", "getAlgoOrders", "cancelAlgoOrder",
             "marketClose", "retrySleep", "send"}

\* The tick has ended, normally or with an exception.
TickEnded == mpc \in {"sleep", "cooldown"}

\* Number of events of the current closePosition with the given op.
Count(op) == Cardinality({ i \in 1..Len(trace) : trace[i].op = op })

Sent(kind) == \E i \in 1..Len(trace) : trace[i].op = "send" /\ trace[i].b = kind

\* The indexes of the snapshot the claims call qualifying, in order.
\* (pnl < 0 and abs(pnl) >= threshold, stated on the snapshot, not by ShouldClose)
Qualifies(pos) == ~(pos.pnl >= 0) /\ ~(pos.pnl < 0 /\ Abs(pos.pnl) < maxLossUsd)

QualifyingIdx ==
    LET n == Len(positions)
    IN  SelectSeq([i \in 1..n |-> i], LAMBDA i : Qualifies(positions[i]))

\* This step issues the request `op` of closePosition.
Issues(op) == trace' # trace /\ trace' # <<>> /\ trace'[Len(trace')].op = op

\* C1: in every tick, closePosition (with its exchangeInfo lookup, cancellations
\* and close submissions) runs only for positions with pnl < 0 and
\* abs(pnl) >= maxLossUsd: never for pnl >= 0, never for a loss under the threshold.
Thm_C1 ==
    /\ \A k \in 1..Len(invoked) :
         /\ invoked[k] \in 1..Len(positions)
         /\ Qualifies(positions[invoked[k]])
    /\ InClose => /\ invoked # <<>>
                  /\ idx = invoked[Len(invoked)]
    /\ trace # <<>> => invoked # <<>>

\* C1 witness: a tick over a snapshot with a loss just under the threshold
\* followed by a loss beyond it has ended having called closePosition for the
\* second position alone.
Wit_C1 ==
    /\ TickEnded
    /\ Len(positions) = 2
    /\ positions[1].pnl = -99
    /\ positions[2].pnl = -150
    /\ invoked = <<2>>

\* C2 (as claimed): a tick that fetched the positions and found the guardian
\* active has, when it ends, called closePosition exactly once for each
\* qualifying position of its snapshot, whatever happened while closing the others.
Cex_C2 == (TickEnded /\ checked = "active") => invoked = QualifyingIdx

\* C3: a tick that finds the pause flag set issues no cancellation, rounding or
\* close call, although it observed a qualifying loss; it has replaced the
\* snapshot by what it fetched, and the status snapshot reports every fetched
\* position with its pnl.
Thm_C3 ==
    checked = "paused" =>
        /\ invoked = <<>>
        /\ trace = <<>>
        /\ TickEnded
        /\ positions = getPositions(lastFetched)
        /\ LET fetched == getPositions(lastFetched)
               status == getStatusInfo.positions
           IN  /\ Len(status) = Len(fetched)
               /\ \A i \in 1..Len(fetched) :
                    /\ status[i].symbol = fetched[i].symbol
                    /\ status[i].pnl = fetched[i].pnl

\* C3 witness: a paused tick has observed a position with a qualifying loss.
Wit_C3 ==
    /\ checked = "paused"
    /\ paused
    /\ \E i \in 1..Len(positions) : Qualifies(positions[i])

\* C4 (as claimed): no cancellation or close request is issued at a moment at
\* which the pause flag is set.
Cex_C4 ==
    [][ (Issues("cancelAllOrders") \/ Issues("cancelAlgoOrder") \/ Issues("marketClose"))
          => ~paused ]_vars

\* C8 (as claimed): every closePosition call outside dry-run submits the close
\* order at least once, whichever earlier step failed.
Cex_C8 ==
    (~dryRun /\ TickEnded /\ invoked # <<>>) => Count("marketClose") >= 1

\* Positions of the events with the given op, in the current closePosition.
At(op) == { i \in 1..Len(trace) : trace[i].op = op }

Exhausted ==
    /\ Count("marketClose") = 3
    /\ mpc # "marketClose"
    /\ ~Sent("closed") /\ ~Sent("partial") /\ ~Sent("unexpected")

\* The first qualifying index after i, or 0.
NextQualifying(i) ==
    IF \E j \in (i + 1)..Len(positions) : Qualifies(positions[j])
    THEN CHOOSE j \in (i + 1)..Len(positions) :
           /\ Qualifies(positions[j])
           /\ \A k \in (i + 1)..(j - 1) : ~Qualifies(positions[k])
    ELSE 0

\* C10: when all 3 close attempts fail, exactly one failure alert is sent and
\* one error line logged; the exception stays inside closePosition: the tick
\* goes on with the next qualifying position, or ends without an error being
\* counted; and every tick that finds the guardian active evaluates each
\* position of its snapshot anew, whatever failed before.
Thm_C10 ==
    /\ [](Exhausted =>
            /\ Count("send") = 1 /\ Sent("failed")
            /\ Cardinality({ i \in At("logError") : trace[i].b = "failed" }) = 1
            /\ mpc = "send" \/ (mpc = "sleep" /\ errors = 0))
    /\ [][ (Exhausted /\ mpc = "send" /\ mpc' # "send") =>
              IF NextQualifying(idx) = 0
              THEN mpc' = "sleep" /\ errors' = 0 /\ invoked' = invoked
              ELSE /\ idx' = NextQualifying(idx)
                   /\ invoked' = Append(invoked, idx')
                   /\ mpc' \in {"exchangeInfo", "cancelAllOrders"} ]_vars
    /\ [][ (mpc = "getPositions" /\ checked' = "active") =>
              /\ (invoked' = <<>>) = (NextQualifying(0)' = 0)
              /\ invoked' # <<>> => invoked'[1] = NextQualifying(0)' ]_vars

\* C10 witness: a tick has ended normally after its last closePosition
\* exhausted the three attempts.
Wit_C10 == Exhausted /\ mpc = "sleep" /\ errors = 0 /\ Sent("failed")

\* A checkSL call was completed by the last step.
Checked == slEvent.result # ""

\* Number of cycles waiting for telegram.send to return.
Sending ==
    LET S == { c \in BagToSet(chk) : c.pc = "send" }
    IN  BagCardinality([c \in S |-> CopiesIn(c, chk)])

\* Number of cycles waiting for the conventional order list.
AwaitingOpen ==
    LET S == { c \in BagToSet(chk) : c.pc = "getOpenOrders" }
    IN  BagCardinality([c \in S |-> CopiesIn(c, chk)])

\* C5 (as claimed): a check in which either order-list request failed ends
\* Unknown (checkSL throws), whatever the other request returned.
Cex_C5 ==
    (Checked /\ (slEvent.algo = "fail" \/ slEvent.open = "fail"))
        => slEvent.result = "throws"

\* C5 (amended): a check in which either order-list request failed ends Unknown
\* unless the conventional list was fetched and holds a protecting order, in
\* which case it ends Protected.
Thm_C5 ==
    (Checked /\ (slEvent.algo = "fail" \/ slEvent.open = "fail"))
        => slEvent.result = (IF slEvent.open = "match" THEN "true" ELSE "throws")

\* C5 witness: the algo order request failed, the conventional list held no
\* protection, and the check ended Unknown.
Wit_C5 ==
    /\ slEvent.algo = "fail"
    /\ slEvent.open = "nomatch"
    /\ slEvent.result = "throws"

\* C6: a check ends Unprotected only when both lists arrived and neither held
\* a protecting order; only such a check writes "false" to the cache or sends
\* the absence alert, and always for its own symbol; a check that ends Unknown
\* writes neither cache nor throttle.
Thm_C6 ==
    /\ [](slEvent.result = "false" => slEvent.algo = "nomatch" /\ slEvent.open = "nomatch")
    /\ [](slEvent.notified => slEvent.result = "false")
    /\ [][ \A s \in Symbols :
             (cache'[s] = "false" /\ cache[s] # "false") =>
                 /\ slEvent'.symbol = s
                 /\ slEvent'.result = "false"
                 /\ slEvent'.algo = "nomatch" /\ slEvent'.open = "nomatch" ]_vars
    /\ [][ (Sending' > Sending) =>
                 /\ slEvent'.notified
                 /\ slEvent'.algo = "nomatch" /\ slEvent'.open = "nomatch"
                 /\ cache'[slEvent'.symbol] = "false" ]_vars
    /\ [][ (slEvent'.result = "throws") => (cache' = cache /\ lastNotify' = lastNotify) ]_vars

\* C6 witness: a check with two answered requests and no protection has set
\* the cache entry to "false" and sends the alert.
Wit_C6 ==
    /\ slEvent.result = "false"
    /\ slEvent.notified
    /\ cache[slEvent.symbol] = "false"
    /\ Sending > 0

\* C7: a check whose algo order list holds a protecting order ends Protected
\* without requesting the conventional orders; they are requested only after
\* an algo list without protection or a failed algo request.
Thm_C7 ==
    /\ [](Checked =>
            /\ slEvent.algo = "match" => (slEvent.open = "none" /\ slEvent.result = "true")
            /\ slEvent.open # "none" => slEvent.algo \in {"nomatch", "fail"})
    /\ [][ (slEvent'.algo = "match") => AwaitingOpen' <= AwaitingOpen ]_vars
    /\ [][ (AwaitingOpen' > AwaitingOpen) =>
              (~Checked' /\ slEvent'.algo \in {"nomatch", "fail"}) ]_vars

\* C7 witness: a check ended Protected on the algo order list alone.
Wit_C7 ==
    /\ slEvent.algo = "match"
    /\ slEvent.open = "none"
    /\ slEvent.result = "true"
    /\ cache[slEvent.symbol] = "true"

\* Positions of the cancellation requests in the current closePosition.
Cancels == At("cancelAllOrders") \cup At("cancelAlgoOrder")

\* C11: within one closePosition every cancellation request (the cancel-all and
\* each algo order cancel) precedes the first close submission and has returned
\* or failed when that submission is made; none follows a close submission.
Thm_C11 ==
    /\ [](\A i \in Cancels \cup At("getAlgoOrders") : \A j \in At("marketClose") : i < j)
    /\ [](mpc \in {"cancelAllOrders", "getAlgoOrders", "cancelAlgoOrder"}
            => Count("marketClose") = 0)
    /\ [](Count("marketClose") > 0
            => Count("cancelAllOrders") = 1 /\ Count("getAlgoOrders") = 1)
    /\ [][ (Issues("marketClose") /\ Count("marketClose") = 0)
              => mpc \in {"getAlgoOrders", "cancelAlgoOrder"} ]_vars
    /\ [][ (Count("marketClose") > 0 /\ trace' # <<>> /\ Count("marketClose")' > 0)
              => Cancels' = Cancels ]_vars

\* C11 witness: the cancel-all and two algo order cancels were issued, and the
\* close was submitted twice after them.
Wit_C11 ==
    /\ Count("cancelAllOrders") = 1
    /\ Count("cancelAlgoOrder") = 2
    /\ Count("marketClose") = 2

\* The outcome notifications of the current closePosition.
Outcomes == { i \in At("send") : trace[i].b # "failed" }

Thm_C13 ==
    /\ [](dryRun =>
            /\ Cancels = {} /\ At("marketClose") = {}
            /\ mpc \notin {"cancelAllOrders", "getAlgoOrders", "cancelAlgoOrder",
                            "marketClose", "retrySleep", "send"})
    /\ [][ dryRun => ~(Issues("cancelAllOrders") \/ Issues("cancelAlgoOrder")
                        \/ Issues("marketClose")) ]_vars

\* C13 witness: a dry-run tick has called closePosition for two positions and
\* ended after the dry-run log line.
Wit_C13 ==
    /\ dryRun
    /\ TickEnded
    /\ invoked = <<1, 2>>
    /\ Count("logDry") = 1

\* The precision the specification gives a symbol: the fractional digits of its
\* step size, 0 for an integer step size, 6 only without metadata.
SymbolPrecision(symbol) ==
    IF symbolInfo[symbol] = NoInfo THEN DefaultPrecision ELSE symbolInfo[symbol]

\* C14 (as claimed): every submitted close order is for the position's symbol,
\* on the side opposite to the position, reduce-only, and of quantity
\* abs(amount) rounded to the symbol's precision.
Cex_C14 ==
    InClose =>
        \A i \in At("marketClose") :
            LET pos == positions[idx]
                order == trace[i]
            IN  /\ order.symbol = pos.symbol
                /\ order.b = (IF pos.amt > 0 THEN "SELL" ELSE "BUY")
                /\ order.reduceOnly = "true"
                /\ order.type = "MARKET"
                /\ order.a = toFixed(Abs(pos.amt), SymbolPrecision(pos.symbol))

\* The shouldNotify call of the last step returned false.
Throttled == slEvent.result = "false" /\ ~slEvent.notified

\* C15: when shouldNotify returns true for a symbol for which it returned true
\* before, with no clearSymbol in between, at least telegramInterval has passed
\* since; a call that returns false changes no throttle entry.
Thm_C15 ==
    /\ []((slEvent.notified /\ slEvent.since # NoTime /\ slEvent.cleared = "no")
            => slEvent.since >= telegramInterval)
    /\ [][ \A s \in Symbols :
             (slEvent'.notified /\ slEvent'.symbol = s
                /\ alerts[s].at # NoTime /\ alerts[s].cleared = "no")
             => now' - alerts[s].at >= telegramInterval ]_vars
    /\ [][ Throttled' => lastNotify' = lastNotify ]_vars

\* C15 witness: shouldNotify returns true a second time, one interval after
\* the first and with no clearSymbol in between.
Wit_C15 ==
    /\ slEvent.notified
    /\ slEvent.since = telegramInterval
    /\ slEvent.cleared = "no"

\* C16: the first shouldNotify call for a symbol after clearSymbol returns true,
\* however recent the cleared record was, and records the current time.
Thm_C16 ==
    /\ []((slEvent.result = "false" /\ slEvent.cleared # "no")
            => /\ slEvent.notified
               /\ lastNotify[slEvent.symbol] = now)
    /\ [][ (slEvent'.result = "false" /\ lastNotify[slEvent'.symbol] = NoTime)
              => (slEvent'.notified /\ lastNotify'[slEvent'.symbol] = now') ]_vars

\* C16 witness: shouldNotify returns true after clearSymbol although less than
\* telegramInterval has passed since the previous alert.
Wit_C16 ==
    /\ slEvent.notified
    /\ slEvent.cleared # "no"
    /\ slEvent.since # NoTime
    /\ slEvent.since < telegramInterval

\* C17 (as claimed): after a check of a symbol that hit a network failure
\* (checkSL threw), the protection state held for the symbol, and the one the
\* status snapshot reports for its position, is Unknown.
Cex_C17 ==
    slEvent.result = "throws" =>
        /\ cache[slEvent.symbol] = "absent"
        /\ \A i \in 1..Len(positions) :
             positions[i].symbol = slEvent.symbol
                => getStatusInfo.positions[i].hasSL = "null"

\* The symbol has neither a protection-state entry nor a throttle entry.
NoEntries(s) == cache[s] = "absent" /\ lastNotify[s] = NoTime

\* C18: a detection cycle that starts when a symbol is not in the monitor's
\* snapshot removes the symbol's cache entry and throttle entry; and if the
\* symbol stays out of the snapshot, then from some moment on it has neither
\* entry for good, whatever cycles were in flight when it left.
Thm_C18 ==
    /\ [][ CheckStart =>
              \A s \in Symbols \ SymbolsOf(positions) : NoEntries(s)' ]_vars
    /\ \A s \in Symbols :
         <>[](s \notin SymbolsOf(positions)) => <>[]NoEntries(s)

\* C18 witness: a check that was in flight when its symbol left the snapshot
\* has re-created the cache entry and the throttle entry.
Wit_C18 ==
    /\ slEvent.result = "false"
    /\ slEvent.symbol \notin SymbolsOf(positions)
    /\ cache[slEvent.symbol] = "false"
    /\ lastNotify[slEvent.symbol] # NoTime
    /\ alerts[slEvent.symbol].at # NoTime
    /\ slEvent.cleared = "evicted"

\* C19: a check that finds a stop-loss while the cached state is "no
\* stop-loss" clears the symbol's throttle entry, and a check that finds no
\* stop-loss while the cached state is "stop-loss" sends the alert at once,
\* however recent the last alert is.
Thm_C19 ==
    /\ [][ (slEvent'.result = "true" /\ cache[slEvent'.symbol] = "false")
              => lastNotify'[slEvent'.symbol] = NoTime ]_vars
    /\ [][ (slEvent'.result = "false" /\ cache[slEvent'.symbol] = "true")
              => (slEvent'.notified /\ Sending' = Sending + 1) ]_vars
    /\ []((slEvent.result = "false" /\ slEvent.cleared = "regained")
            => slEvent.notified)

\* C19 witness: protection was lost, regained and lost again within one
\* notification interval, and the second loss is alerted.
Wit_C19 ==
    /\ slEvent.notified
    /\ slEvent.cleared = "regained"
    /\ slEvent.since # NoTime
    /\ slEvent.since < telegramInterval

\* The last moment of the clock.
MaxNow == telegramInterval + MaxTime

\* C20: a check that finds no stop-loss sends the alert exactly when the
\* throttle lets it through (no record, or a record at least telegramInterval
\* old); two alerts without a clearSymbol between them are at least
\* telegramInterval apart; and while the position stays in the snapshot and
\* every check finds no stop-loss, an alert follows whenever the clock still
\* has an interval to run.
Thm_C20 ==
    /\ [][ slEvent'.result = "false" =>
              LET last == lastNotify[slEvent'.symbol]
                  due == last = NoTime \/ now - last >= telegramInterval
              IN  /\ slEvent'.notified = due
                  /\ Sending' = (IF due THEN Sending + 1 ELSE Sending) ]_vars
    /\ [][ Sending' > Sending => slEvent'.notified ]_vars
    /\ []((slEvent.notified /\ slEvent.cleared = "no" /\ slEvent.since # NoTime)
            => slEvent.since >= telegramInterval)
    /\ (<>[](positions # <<>>) /\ [](slEvent.result \in {"", "false"}))
          => [](now + telegramInterval <= MaxNow => <>slEvent.notified)

\* C20 witness: the position is still without stop-loss one interval after an
\* alert, and the alert is sent again.
Wit_C20 ==
    /\ slEvent.notified
    /\ slEvent.since = telegramInterval
    /\ slEvent.cleared = "no"
    /\ cache[slEvent.symbol] = "false"
    /\ Sending > 0
    /\ now = MaxNow

\* This step ends a tick with an exception.
TickThrew == GetPositionsFail(ErrCap) \/ ExchangeInfoFail(ErrCap)

\* This step ends a tick without exception.
TickCompleted ==
    /\ GetPositionsReturn(LoopRawLists) \/ ExchangeInfoReturn \/ SendDone
    /\ mpc' = "sleep"

\* C21: a tick that ends with an exception adds one to the error counter, a
\* tick that completes sets it to zero, also after failed close attempts, and
\* no other step changes it; so it counts the failing ticks since the last
\* completed one.
Thm_C21 ==
    /\ [][ TickThrew => errors' = errors + 1 ]_vars
    /\ [][ TickCompleted => errors' = 0 ]_vars
    /\ [][ ~(TickThrew \/ TickCompleted) => errors' = errors ]_vars
    /\ [][ (~TickEnded /\ TickEnded') => (TickThrew \/ TickCompleted) ]_vars
    /\ [](errors \in 0..ErrCap)

\* C21 witness: two ticks in a row have failed, the second one inside
\* closePosition.
Wit_C21 ==
    /\ errors = 2
    /\ mpc = "sleep"
    /\ invoked # <<>>

\* C22: a failing tick is followed by the 30 s sleep exactly when it brings the
\* error counter to 10 or beyond, never below; the sleep is entered only at the
\* end of a failing tick and is followed by the normal poll sleep.
Thm_C22 ==
    /\ [][ TickThrew => ((mpc' = "cooldown") = (errors' >= 10)) ]_vars
    /\ [](mpc = "cooldown" => errors >= 10)
    /\ [](errors < 10 => mpc # "cooldown")
    /\ [][ (mpc' = "cooldown" /\ mpc # "cooldown") => TickThrew ]_vars
    /\ [][ mpc = "cooldown" => (mpc' = "sleep" /\ errors' = errors) ]_vars

\* C22 witness: the tenth failing tick in a row is followed by the 30 s sleep.
Wit_C22 ==
    /\ mpc = "cooldown"
    /\ errors = 10

\* C23: errors never end the monitor loop: when every timer ends and every
\* request is answered or fails, each tick ends, with or without exception, and
\* after each tick another one starts.
Thm_C23 ==
    /\ [](mpc \in {"init", "sleep", "cooldown", "getPositions", "exchangeInfo",
                   "cancelAllOrders", "getAlgoOrders", "cancelAlgoOrder",
                   "marketClose", "retrySleep", "send"})
    /\ [](mpc = "getPositions" => <>TickEnded)
    /\ [](TickEnded => <>(mpc = "getPositions"))

\* C23 witness: a tick has started after the tenth failing tick in a row and
\* its 30 s sleep.
Wit_C23 ==
    /\ mpc = "getPositions"
    /\ errors = 10

\* The snapshot of the current tick holds a position of the symbol with a
\* qualifying loss.
StaysOpen(symbol) ==
    checked # "none" =>
        \E i \in 1..Len(positions) :
            positions[i].symbol = symbol /\ Qualifies(positions[i])

\* The exchange has accepted a close order for the position of the symbol.
Accepted(symbol) ==
    /\ mpc = "send"
    /\ idx > 0
    /\ positions[idx].symbol = symbol
    /\ \E i \in At("marketClose") :
         trace[i].symbol = symbol /\ trace[i].reduceOnly = "true"
    /\ Sent("closed") \/ Sent("partial") \/ Sent("unexpected")

\* C24: when a position stays in every snapshot with a qualifying loss, the
\* guardian is neither paused nor in dry-run, and the calls of the exchange
\* succeed in the end, a reduce-only close order for the position is accepted,
\* again and again as long as it stays; failures in between are made up for by
\* later ticks.
Thm_C24 ==
    \A s \in Symbols :
        ([]StaysOpen(s) /\ []~paused /\ []~dryRun) => []<>Accepted(s)

\* C24 witness: after a failing tick, the close order of the second position
\* is accepted on the third attempt.
Wit_C24 ==
    /\ Accepted("ETHUSDT")
    /\ errors >= 1
    /\ Count("marketClose") = 3

\* closePosition waits for the exchangeInfo request roundQty made for the symbol.
ReqFor(symbol) ==
    /\ mpc = "exchangeInfo"
    /\ positions[idx].symbol = symbol

\* roundQty has returned to closePosition for the symbol.
Rounded(symbol) ==
    /\ mpc = "cancelAllOrders"
    /\ positions[idx].symbol = symbol

\* C25 (as claimed): the metadata are requested at most once per symbol: once
\* roundQty has returned for a symbol, with metadata that list the symbol or
\* not, no later roundQty call for it makes the request again.
Cex_C25 ==
    \A s \in Symbols : [](Rounded(s) => []~ReqFor(s))

\* C26 (as claimed): the quantity roundQty returns for a symbol of the
\* metadata has exactly the fractional digits of the symbol's step size, none
\* for an integer step size; 6 digits are used only without metadata.
Cex_C26 ==
    (mpc = "cancelAllOrders" /\ symbolInfo[positions[idx].symbol] # NoInfo)
        => qty = toFixed(Abs(positions[idx].amt), symbolInfo[positions[idx].symbol])

\* The entries of the last positionRisk answer with an amount other than 0.
Held == { j \in 1..Len(lastFetched) : lastFetched[j].positionAmt # 0 }

\* C27: every position of the snapshot has an amount other than 0, side LONG
\* exactly for an amount above 0 and SHORT exactly for one below 0; the
\* snapshot holds the entries of the exchange's answer with a non-zero amount,
\* each once and in order, and none of the entries with amount 0.
Thm_C27 ==
    /\ \A i \in 1..Len(positions) :
         LET pos == positions[i]
         IN  /\ pos.amt # 0
             /\ pos.side \in {"LONG", "SHORT"}
             /\ (pos.side = "LONG") = (pos.amt > 0)
             /\ (pos.side = "SHORT") = (pos.amt < 0)
    /\ Len(positions) = Cardinality(Held)
    /\ \A j \in 1..Len(lastFetched) :
         LET k == Cardinality({ h \in Held : h <= j })
         IN  IF j \in Held
             THEN /\ positions[k].symbol = lastFetched[j].symbol
                  /\ positions[k].amt = lastFetched[j].positionAmt
                  /\ positions[k].pnl = lastFetched[j].unRealizedProfit
             ELSE \A i \in 1..Len(positions) : positions[i].symbol # lastFetched[j].symbol

\* C27 witness: the exchange reported BTCUSDT with amount 0 and a short
\* ETHUSDT position; the snapshot holds the short position alone.
Wit_C27 ==
    /\ Len(lastFetched) = 2
    /\ lastFetched[1].positionAmt = 0
    /\ lastFetched[1].unRealizedProfit = -150
    /\ Len(positions) = 1
    /\ positions[1].symbol = "ETHUSDT"
    /\ positions[1].side = "SHORT"

\* C28: the status snapshot has one entry per position of the monitor's
\* snapshot, in order, with the position's symbol and pnl and with the
\* protection value the detector's cache holds for the symbol: true or false
\* exactly when the cache holds it, null exactly without entry, shown as
\* unknown and never as protected or unprotected; and it carries the monitor's
\* error count.
Thm_C28 ==
    LET st == getStatusInfo
    IN  /\ DOMAIN st.positions = 1..Len(positions)
        /\ \A i \in 1..Len(positions) :
             LET e == st.positions[i]
                 held == cache[positions[i].symbol]
             IN  /\ e.symbol = positions[i].symbol
                 /\ e.pnl = positions[i].pnl
                 /\ e.hasSL \in {"true", "false", "null"}
                 /\ (e.hasSL = "true") = (held = "true")
                 /\ (e.hasSL = "false") = (held = "false")
                 /\ (e.hasSL = "null") = (held = "absent")
                 /\ (statusMark(e.hasSL) = "protected") = (held = "true")
                 /\ (statusMark(e.hasSL) = "unprotected") = (held = "false")
                 /\ (statusMark(e.hasSL) = "unknown") = (held = "absent")
        /\ st.errors = errors

\* C28 witness: after a failed tick the snapshot holds two positions, one
\* found without stop-loss and one the detector has not determined yet.
Wit_C28 ==
    /\ errors = 1
    /\ Len(positions) = 2
    /\ cache[positions[1].symbol] = "false"
    /\ cache[positions[2].symbol] = "absent"
    /\ getStatusInfo.positions[1].hasSL = "false"
    /\ getStatusInfo.positions[2].hasSL = "null"

\* C29: the pause flag is not set at the start; cmdPause leaves it set and
\* cmdResume leaves it unset, whatever it was; and no other step, of a tick, of
\* the close protocol or of a failing request, changes it.
Thm_C29 ==
    /\ ~paused
    /\ [][ CmdPause => paused' ]_vars
    /\ [][ CmdResume => ~paused' ]_vars
    /\ [][ paused' # paused => (CmdPause \/ CmdResume) ]_vars
    /\ [][ (mpc' # mpc \/ trace' # trace \/ errors' # errors) => paused' = paused ]_vars

\* C29 witness: the flag was set while the close protocol ran and is still
\* set two attempts later.
Wit_C29 ==
    /\ paused
    /\ checked = "active"
    /\ mpc = "marketClose"
    /\ attempt = 3

\* C30: the health report is healthy exactly when the monitor loop has been
\* started and the error count is below 10; the endpoint answers 200 exactly
\* when it is healthy and 503 otherwise, also before the start; and lastTick
\* changes only by a tick that completes, which sets it to the current time.
Thm_C30 ==
    /\ [](running = (mpc # "init"))
    /\ [](getHealth.healthy = (mpc # "init" /\ errors < 10))
    /\ [](getHealth.errors = errors /\ getHealth.lastTick = lastTick)
    /\ [](serve = (IF mpc # "init" /\ errors < 10 THEN 200 ELSE 503))
    /\ [](mpc = "init" => serve = 503)
    /\ [][ lastTick' # lastTick => IndexTickReturn ]_vars
    /\ [][ IndexTickReturn => lastTick' = now ]_vars
    /\ [][ IndexTickThrow => lastTick' = lastTick ]_vars

\* C30 witness: ten ticks in a row have failed after one that completed
\* earlier; the loop runs and the endpoint answers 503.
Wit_C30 ==
    /\ running
    /\ errors = 10
    /\ lastTick # 0
    /\ lastTick < now
    /\ serve = 503

\* The order under test, read the same way for both lists.
Probed ==
    IF probe.list = "algo"
    THEN [ active |-> probe.order.algoStatus = "NEW",
           side   |-> probe.order.side,
           kind   |-> probe.order.orderType,
           flag   |-> probe.order.closePosition,
           qty    |-> probe.order.quantity ]
    ELSE [ active |-> probe.order.status = "NEW",
           side   |-> probe.order.side,
           kind   |-> probe.order.type,
           flag   |-> probe.order.closePosition \in {"S:true", "B:true"},
           qty    |-> probe.order.origQty ]

\* C31: an order of either list counts as protection exactly when it is NEW,
\* on the protective side (SELL for LONG, BUY for SHORT), of type STOP or
\* STOP_MARKET, and has the close-position flag or a quantity above 0; for a
\* conventional order the flag counts as the boolean and as the string.
Thm_C31 ==
    (probe.list # "none" /\ probe.verdict # "none") =>
        (probe.verdict = "true") =
            ( /\ Probed.active
              /\ Probed.side = (IF probe.side = "LONG" THEN "SELL" ELSE "BUY")
              /\ Probed.kind \in {"STOP", "STOP_MARKET"}
              /\ (Probed.flag \/ Probed.qty > 0) )

\* C31 witness: a conventional STOP order without quantity whose close flag
\* is the string 'true' protects a short position.
Wit_C31 ==
    /\ probe.list = "open"
    /\ probe.side = "SHORT"
    /\ probe.order.closePosition = "S:true"
    /\ probe.order.origQty = 0
    /\ probe.verdict = "true"

\* C32 (as claimed): when the cancellation step of a close protocol that
\* obtained the algo order list gives way to the close submission, a cancel
\* request has been issued for every order of the list in state NEW, also
\* when the cancel of an earlier order failed.
Cex_C32 ==
    [][ (mpc = "cancelAlgoOrder" /\ mpc' = "marketClose") =>
           \A j \in 1..Len(algoOrders) :
               algoOrders[j].algoStatus = "NEW" =>
                   \E i \in At("cancelAlgoOrder") : trace[i].a = algoOrders[j].algoId ]_vars

\* The cancelAllOrders request of the current closePosition has failed.
CancelAllFailed ==
    \E i \in 1..Len(trace) : trace[i].op = "failed" /\ trace[i].b = "cancelAllOrders"

\* C33: a failed cancelAllOrders request is not made again, does not end
\* closePosition and adds nothing to the error counter: the algo orders are
\* requested next, and the close order is submitted in the same call.
Thm_C33 ==
    /\ [][ CancelAllOrdersFail =>
              /\ mpc' = "getAlgoOrders"
              /\ idx' = idx
              /\ errors' = errors
              /\ Count("getAlgoOrders")' = 1 ]_vars
    /\ [](CancelAllFailed => Count("cancelAllOrders") = 1)
    /\ [][ (CancelAllFailed /\ mpc \in {"getAlgoOrders", "cancelAlgoOrder"}) =>
              /\ mpc' \in {"cancelAlgoOrder", "marketClose"}
              /\ idx' = idx ]_vars
    /\ []((CancelAllFailed /\ mpc = "send") => Count("marketClose") >= 1)
    /\ [][ (CancelAllFailed /\ InClose) => errors' \in {errors, 0} ]_vars
    /\ []((CancelAllFailed /\ mpc = "getAlgoOrders") =>
            <>(CancelAllFailed /\ mpc = "marketClose"))

\* C33 witness: after the failed cancelAllOrders request an algo order was
\* cancelled and the close order was filled.
Wit_C33 ==
    /\ CancelAllFailed
    /\ Count("cancelAlgoOrder") = 1
    /\ mpc = "send"
    /\ Sent("closed")
    /\ errors = 0

\* The position lists the detection cycles in progress iterate over.
Snapshots == { c.ps : c \in BagToSet(chk) }

\* The cycle in state c goes on to the next position of its own list, or ends
\* after the last one.
GoesOn(c) ==
    chk' = moved(c, IF c.i < Len(c.ps)
                    THEN [pc |-> "getAlgoOrders", ps |-> c.ps, i |-> c.i + 1,
                          hasNetworkError |-> FALSE]
                    ELSE IdleCheck)

\* C34: the snapshot changes only when a positionRisk request of the tick is
\* answered, and then to the positions of that answer as a whole; no step of a
\* detection cycle fetches positions or changes the snapshot; and the list a
\* cycle iterates over is the snapshot it took when it started, the result of
\* one fetch, whatever the monitor does to the snapshot meanwhile.
Thm_C34 ==
    /\ [][ positions' # positions =>
              /\ mpc = "getPositions"
              /\ mpc' # "getPositions"
              /\ positions' = getPositions(lastFetched') ]_vars
    /\ [][ lastFetched' # lastFetched => mpc = "getPositions" ]_vars
    /\ [][ chk' # chk => (positions' = positions /\ lastFetched' = lastFetched /\ mpc' = mpc) ]_vars
    /\ [][ CheckStart => Snapshots' \subseteq (Snapshots \cup {positions}) ]_vars
    /\ [][ ~CheckStart => Snapshots' \subseteq Snapshots ]_vars
    /\ [][ (Checked' /\ ~slEvent'.notified) =>
              \E c \in BagToSet(chk) : c.ps[c.i].symbol = slEvent'.symbol /\ GoesOn(c) ]_vars
    /\ [][ (Sending' < Sending) => \E c \in BagToSet(chk) : c.pc = "send" /\ GoesOn(c) ]_vars
    /\ [](\A c \in BagToSet(chk) :
            /\ c.ps \in { getPositions(raw) : raw \in WatchRawLists }
            /\ c.i \in 1..Len(c.ps))

\* C34 witness: a cycle checks the second position of the snapshot it started
\* with although a tick has replaced the snapshot by an empty one.
Wit_C34 ==
    /\ positions = <<>>
    /\ lastFetched = <<>>
    /\ mpc = "sleep"
    /\ \E c \in BagToSet(chk) : Len(c.ps) = 2 /\ c.i = 2 /\ c.pc = "getOpenOrders"

\* C35: a tick starts only when the loop is at its start or in the poll sleep
\* after the previous tick, with no request, retry delay or notification of a
\* close protocol outstanding; and within a tick the close protocol runs for
\* one position at a time, the next one starting only after the previous one
\* has returned.
Thm_C35 ==
    /\ [][ (mpc' = "getPositions" /\ mpc # "getPositions") =>
              /\ mpc \in {"init", "sleep"}
              /\ idx = 0 /\ attempt = 0 /\ aidx = 0 /\ algoOrders = <<>> ]_vars
    /\ [][ TickStart => (~InClose /\ mpc # "cooldown") ]_vars
    /\ [](InClose => (idx \in 1..Len(positions) /\ invoked # <<>> /\ invoked[Len(invoked)] = idx))
    /\ [](~InClose => (idx = 0 /\ attempt = 0 /\ aidx = 0))
    /\ [][ (InClose /\ InClose' /\ idx' # idx) =>
              /\ mpc \in {"send", "exchangeInfo"}
              /\ idx' > idx
              /\ attempt' = 0 /\ aidx' = 0 ]_vars
    /\ [][ (InClose /\ ~InClose') => mpc \in {"send", "exchangeInfo"} ]_vars

\* C35 witness: a tick with two close protocols, the second with three
\* submissions and two retry delays, has ended and the loop is in the poll
\* sleep before the next tick.
Wit_C35 ==
    /\ mpc = "sleep"
    /\ invoked = <<1, 2>>
    /\ Count("marketClose") = 3
    /\ Count("sleep") = 2
    /\ Sent("closed")

\* C39 (as claimed): an update from another chat than the configured one,
\* message or callback, leaves the pause flag as it is and runs no command,
\* the status reply included.
Cex_C39 ==
    [][ (HandleUpdate /\ tgEvent'.update.chat = "other") =>
           (paused' = paused /\ tgEvent'.run = "none") ]_vars

\* C36: in every reachable state a symbol with a throttle record has a cache
\* entry, and that entry is Unprotected; a symbol whose cache entry is
\* Protected or absent has no throttle record, however the detection cycles
\* and the ticks of the monitor interleave.
Thm_C36 ==
    \A s \in Symbols :
        /\ lastNotify[s] # NoTime => cache[s] = "false"
        /\ cache[s] \in {"true", "absent"} => lastNotify[s] = NoTime

\* One symbol is throttled and Unprotected while another one, alerted before,
\* regained its protection and lost its record, with a cycle still under way.
Wit_C36 ==
    /\ \E s, t \in Symbols :
         /\ s # t
         /\ lastNotify[s] # NoTime
         /\ cache[s] = "false"
         /\ cache[t] = "true"
         /\ alerts[t].at # NoTime
         /\ alerts[t].cleared = "regained"
         /\ lastNotify[t] = NoTime
    /\ \E c \in BagToSet(chk) : c.pc # "idle"

\* The tick that ended last failed at its position fetch.
FetchFailed == TickEnded /\ checked = "none"

\* C37: a failing position fetch leaves the snapshot (and the answer it came
\* from) as it was, adds one to the error counter and ends the tick with no
\* request of the close protocol issued, although the retained snapshot may
\* hold a position to close; after it the status report lists the retained
\* positions with the new error count, and a detection cycle that starts takes
\* the retained snapshot and checks its first position.
Thm_C37 ==
    /\ [][ GetPositionsFail(MaxErrors) =>
              /\ positions' = positions
              /\ lastFetched' = lastFetched
              /\ errors' = errors + 1
              /\ TickEnded'
              /\ trace' = <<>> /\ invoked' = <<>>
              /\ symbolInfo' = symbolInfo
              /\ cache' = cache /\ lastNotify' = lastNotify /\ chk' = chk ]_vars
    /\ [](FetchFailed =>
            /\ trace = <<>> /\ invoked = <<>> /\ idx = 0
            /\ errors > 0
            /\ positions = getPositions(lastFetched)
            /\ getStatusInfo.errors = errors
            /\ DOMAIN getStatusInfo.positions = 1..Len(positions)
            /\ \A i \in 1..Len(positions) :
                 /\ getStatusInfo.positions[i].symbol = positions[i].symbol
                 /\ getStatusInfo.positions[i].pnl = positions[i].pnl)
    /\ [][ (CheckStart /\ FetchFailed) =>
              chk' = moved(IdleCheck,
                           IF positions = <<>> THEN IdleCheck
                           ELSE [pc |-> "getAlgoOrders", ps |-> positions, i |-> 1,
                                 hasNetworkError |-> FALSE]) ]_vars

\* After a tick whose fetch failed, with a position to close in the retained
\* snapshot, a detection cycle that took this snapshot has completed a check of
\* the position and cached its state, which the status report shows.
Wit_C37 ==
    /\ FetchFailed
    /\ errors = 1
    /\ Len(positions) = 1
    /\ Qualifies(positions[1])
    /\ Checked
    /\ slEvent.symbol = positions[1].symbol
    /\ slEvent.result = "false"
    /\ getStatusInfo.positions[1].hasSL = "false"
    /\ trace = <<>>

\* This step ends a tick whose position fetch had succeeded.
FetchedTickEnds == ~TickEnded /\ TickEnded' /\ checked' # "none"

Thm_C40 ==
    /\ [][ (slEvent'.result = "throws") =>
              /\ slEvent'.algo = "fail" \/ slEvent'.open = "fail"
              /\ cache' = cache
              /\ lastNotify' = lastNotify
              /\ alerts' = alerts
              /\ ~slEvent'.notified
              /\ Sending' = Sending
              /\ \E c \in BagToSet(chk) :
                   /\ c.pc = "getOpenOrders"
                   /\ c.ps[c.i].symbol = slEvent'.symbol
                   /\ GoesOn(c) ]_vars
    /\ [][ (Checked' /\ (slEvent'.open = "fail"
                         \/ (slEvent'.algo = "fail" /\ slEvent'.open = "nomatch"))) =>
              slEvent'.result = "throws" ]_vars
    /\ [](\A c \in BagToSet(chk) : c.pc = "getAlgoOrders" => ~c.hasNetworkError)
    /\ [][ (Checked' /\ slEvent'.result # "throws") =>
              /\ cache'[slEvent'.symbol] = slEvent'.result
              /\ slEvent'.notified = (slEvent'.result = "false" /\ shouldNotify(slEvent'.symbol))
              /\ slEvent'.notified => Sending' > Sending ]_vars

\* The check of the first of two positions has failed after its symbol had
\* been cached Unprotected and alerted: both entries are still there, and the
\* cycle has requested the algo orders for the second position.
Wit_C40 ==
    /\ slEvent.result = "throws"
    /\ cache[slEvent.symbol] = "false"
    /\ lastNotify[slEvent.symbol] # NoTime
    /\ \E c \in BagToSet(chk) :
         /\ Len(c.ps) = 2
         /\ c.i = 2
         /\ c.pc = "getAlgoOrders"
         /\ c.ps[1].symbol = slEvent.symbol
         /\ cache[c.ps[2].symbol] = "absent"

====
